---- MODULE Spec2Model ----
(***************************************************************************)
(* Retry-decision engine of globus_sdk.transport.retry: the five           *)
(* RetryChecker classes of retry_checker.py, the policy that chains them   *)
(* and the executor loop that drives one logical request.                  *)
(*                                                                         *)
(* Python values are encoded as follows.                                   *)
(*   Optional[T]   : <<>> is None, <<x>> is the value x                    *)
(*   str           : a sequence of one-character strings                   *)
(*   return values : [kind |-> "True" | "False" | "None" | "int" | "raise",*)
(*                    value |-> n]  (value is the int, 0 otherwise)        *)
(***************************************************************************)
EXTENDS Integers, Sequences, FiniteSets, TLC

VARIABLES
    max_retries,   \* MaxRetriesRetryChecker.max_retries
    checkers,      \* the policy's ordered checker list
    attempt,       \* RetryContext.attempt
    exception,     \* RetryContext.exception, Optional[exception class name]
    response,      \* RetryContext.response, Optional[[status_code, retry_after]]
    authorizer,    \* RetryContext.authorizer, Optional[authorizer class name]
    retry_state,   \* RetryContext.retry_state, the per-request dict
    phase,         \* position of the executor / of the evaluation
    checker,       \* name of the checker or policy evaluated last
    verdict,       \* return value of the last evaluation
    consulted,     \* checkers consulted, in order, by the last evaluation
    pre_state,     \* retry_state as it was before the last evaluation
    refresh_log,   \* outcomes of handle_missing_authorization, this request
    log            \* per attempt: what came back and the verdict given

vars == <<max_retries, checkers, attempt, exception, response, authorizer,
          retry_state, phase, checker, verdict, consulted, pre_state,
          refresh_log, log>>

---------------------------------------------------------------------------
(* Bounds *)

MaxRetriesBound == 3

MaxHeaderLen == 2

---------------------------------------------------------------------------
(* Python value encodings *)

None == <<>>

Some(x) == <<x>>

RetTrue == [kind |-> "True", value |-> 0]

RetFalse == [kind |-> "False", value |-> 0]

RetNone == [kind |-> "None", value |-> 0]

RetInt(n) == [kind |-> "int", value |-> n]

RetRaise == [kind |-> "raise", value |-> 0]

NoVerdict == [kind |-> "unset", value |-> 0]

\* dict.get(key): None when the key is absent
DictGet(d, k) == IF k \in DOMAIN d THEN Some(d[k]) ELSE None

\* d[key] = v
DictSet(d, k, v) == [x \in (DOMAIN d) \cup {k} |-> IF x = k THEN v ELSE d[x]]

EmptyDict == [x \in {} |-> TRUE]

\* truthiness of an Optional[bool]
Truthy(opt) == opt = Some(TRUE)

---------------------------------------------------------------------------
(* str -> int, as int(val) does it for the characters of HeaderChars *)

Digits == {"0", "1", "2", "3", "4", "5", "6", "7", "8", "9"}

HeaderChars == {"0", "2", "-", "s"}

DigitVal(c) ==
    CASE c = "0" -> 0 [] c = "1" -> 1 [] c = "2" -> 2 [] c = "3" -> 3
      [] c = "4" -> 4 [] c = "5" -> 5 [] c = "6" -> 6 [] c = "7" -> 7
      [] c = "8" -> 8 [] c = "9" -> 9

AllDigits(s) == Len(s) > 0 /\ \A i \in 1..Len(s) : s[i] \in Digits

RECURSIVE DigitsValue(_)
DigitsValue(s) ==
    IF Len(s) = 0 THEN 0
    ELSE 10 * DigitsValue(SubSeq(s, 1, Len(s) - 1)) + DigitVal(s[Len(s)])

\* int(val): None stands for ValueError
IntOfStr(s) ==
    IF AllDigits(s) THEN Some(DigitsValue(s))
    ELSE IF Len(s) > 1 /\ s[1] = "-" /\ AllDigits(Tail(s))
         THEN Some(0 - DigitsValue(Tail(s)))
         ELSE None

---------------------------------------------------------------------------
(* Input domains *)

RECURSIVE StringsUpTo(_)
StringsUpTo(n) ==
    IF n = 0 THEN {<<>>}
    ELSE LET shorter == StringsUpTo(n - 1)
         IN  shorter \cup {Append(s, c) : s \in shorter, c \in HeaderChars}

\* values of the Retry-After header: absent, or any string over HeaderChars
HeaderValues == {None} \cup {Some(s) : s \in StringsUpTo(MaxHeaderLen)}

StatusCodes == {200, 401, 404, 429, 500, 503}

Responses ==
    {None} \cup
    {Some([status_code |-> sc, retry_after |-> h]) :
        sc \in StatusCodes, h \in HeaderValues}

\* exception classes; the first three derive from requests.RequestException
\* (InvalidURL also derives from ValueError), the last does not
RequestExceptionClasses == {"ConnectionError", "Timeout", "InvalidURL"}

ExceptionClasses == RequestExceptionClasses \cup {"UnicodeEncodeError"}

Exceptions == {None} \cup {Some(e) : e \in ExceptionClasses}

\* isinstance(exc, requests.RequestException)
IsRequestException(e) == e \in RequestExceptionClasses

AuthorizerClasses == {"AccessTokenAuthorizer", "RefreshTokenAuthorizer"}

Authorizers == {None} \cup {Some(a) : a \in AuthorizerClasses}

\* the retry_state dicts one logical request can hold
RetryStates == {EmptyDict, DictSet(EmptyDict, "has_done_reauth", TRUE)}

\* outcomes of authorizer.handle_missing_authorization(): an authorizer
\* without refresh tokens reports failure; a refresh may succeed, fail or raise
HandleMissingAuthorization(a) ==
    IF a = "AccessTokenAuthorizer" THEN {"False"}
    ELSE {"True", "False", "raise"}

Context(a, e, r, au, st) ==
    [attempt |-> a, exception |-> e, response |-> r, authorizer |-> au,
     retry_state |-> st]

---------------------------------------------------------------------------
(* retry_checker.py *)

\* variants of MaxRetriesRetryChecker.should_retry with a wrong comparison
MaxRetriesShouldRetry_AtLimit(limit, context) ==
    IF context.attempt >= limit THEN RetFalse ELSE RetNone

MaxRetriesShouldRetry_Inverted(limit, context) ==
    IF context.attempt < limit THEN RetFalse ELSE RetNone

MaxRetriesShouldRetry_OneMore(limit, context) ==
    IF context.attempt > limit + 1 THEN RetFalse ELSE RetNone

\* MaxRetriesRetryChecker.should_retry
MaxRetriesShouldRetry(limit, context) ==
    IF context.attempt > limit THEN RetFalse ELSE RetNone

\* StandardExceptionRetryChecker.should_retry
StandardExceptionShouldRetry(context) ==
    IF context.exception # None
    THEN IF IsRequestException(context.exception[1]) THEN RetTrue ELSE RetFalse
    ELSE RetNone

\* variant of RetryAfterRetryChecker.STATUS_CODES that lacks 503
RetryAfterStatusCodes_Only429 == {429}

RetryAfterStatusCodes == {429, 503}

\* RetryAfterRetryChecker._parse_retry_after: Optional[int]
ParseRetryAfter(resp) ==
    LET val == resp.retry_after
    IN  IF val = None \/ val[1] = <<>> THEN None
        ELSE IntOfStr(val[1])

\* variant of RetryAfterRetryChecker.should_retry without the final
\* "return True"
RetryAfterShouldRetry_NoFallback(context) ==
    IF context.response = None THEN RetNone
    ELSE IF context.response[1].status_code \in RetryAfterStatusCodes
         THEN LET retry_after == ParseRetryAfter(context.response[1])
              IN  IF retry_after # None /\ retry_after[1] # 0
                  THEN RetInt(retry_after[1])
                  ELSE RetNone
         ELSE RetNone

\* RetryAfterRetryChecker.should_retry
RetryAfterShouldRetry(context) ==
    IF context.response = None THEN RetNone
    ELSE IF context.response[1].status_code \in RetryAfterStatusCodes
         THEN LET retry_after == ParseRetryAfter(context.response[1])
              IN  IF retry_after # None /\ retry_after[1] # 0
                  THEN RetInt(retry_after[1])
                  ELSE RetTrue
         ELSE RetNone

TransientErrorStatusCodes == {429, 500, 502, 503, 504}

\* variant of TransientErrorRetryChecker.should_retry whose status list
\* lacks 500
TransientErrorShouldRetry_No500(context) ==
    IF context.response = None THEN RetNone
    ELSE IF context.response[1].status_code \in TransientErrorStatusCodes \ {500}
         THEN RetTrue
         ELSE RetNone

\* TransientErrorRetryChecker.should_retry
TransientErrorShouldRetry(context) ==
    IF context.response = None THEN RetNone
    ELSE IF context.response[1].status_code \in TransientErrorStatusCodes
         THEN RetTrue
         ELSE RetNone

ExpiredAuthorizationStatusCodes == {401}

\* whether ExpiredAuthorizationRetryChecker.should_retry reaches the call of
\* authorizer.handle_missing_authorization()
ExpiredAuthorizationCallsRefresh(context) ==
    /\ context.response # None
    /\ context.response[1].status_code \in ExpiredAuthorizationStatusCodes
    /\ context.authorizer # None
    /\ ~Truthy(DictGet(context.retry_state, "has_done_reauth"))

\* variant of ExpiredAuthorizationRetryChecker.should_retry that does not
\* record the reauth in retry_state
ExpiredAuthorizationShouldRetry_NoFlag(context, refreshed) ==
    IF ~ExpiredAuthorizationCallsRefresh(context)
    THEN [ret |-> RetNone, retry_state |-> context.retry_state,
          refresh |-> <<>>]
    ELSE IF refreshed = "raise"
    THEN [ret |-> RetRaise, retry_state |-> context.retry_state,
          refresh |-> <<refreshed>>]
    ELSE IF refreshed = "False"
    THEN [ret |-> RetNone, retry_state |-> context.retry_state,
          refresh |-> <<refreshed>>]
    ELSE [ret |-> RetTrue, retry_state |-> context.retry_state,
          refresh |-> <<refreshed>>]

\* variant of ExpiredAuthorizationRetryChecker.should_retry that returns
\* True on every 401 once a reauth has been done
ExpiredAuthorizationShouldRetry_FlagRetries(context, refreshed) ==
    IF context.response = None
       \/ context.response[1].status_code \notin ExpiredAuthorizationStatusCodes
       \/ context.authorizer = None
    THEN [ret |-> RetNone, retry_state |-> context.retry_state,
          refresh |-> <<>>]
    ELSE IF Truthy(DictGet(context.retry_state, "has_done_reauth"))
    THEN [ret |-> RetTrue, retry_state |-> context.retry_state,
          refresh |-> <<>>]
    ELSE IF refreshed = "raise"
    THEN [ret |-> RetRaise, retry_state |-> context.retry_state,
          refresh |-> <<refreshed>>]
    ELSE IF refreshed = "False"
    THEN [ret |-> RetNone, retry_state |-> context.retry_state,
          refresh |-> <<refreshed>>]
    ELSE [ret |-> RetTrue,
          retry_state |-> DictSet(context.retry_state, "has_done_reauth", TRUE),
          refresh |-> <<refreshed>>]

\* variant of ExpiredAuthorizationRetryChecker.should_retry that keeps the
\* reauth flag on the checker object, which every request of the client
\* shares, instead of in context.retry_state: a reauth done by any request
\* is seen by all (for the two-request specification, where retry_state
\* holds one dict per request)
ExpiredAuthorizationShouldRetry_SharedFlag(context, refreshed) ==
    IF context.response = None
       \/ context.response[1].status_code \notin ExpiredAuthorizationStatusCodes
       \/ context.authorizer = None
       \/ \E j \in DOMAIN retry_state :
             Truthy(DictGet(retry_state[j], "has_done_reauth"))
    THEN [ret |-> RetNone, retry_state |-> context.retry_state,
          refresh |-> <<>>]
    ELSE IF refreshed = "raise"
    THEN [ret |-> RetRaise, retry_state |-> context.retry_state,
          refresh |-> <<refreshed>>]
    ELSE IF refreshed = "False"
    THEN [ret |-> RetNone, retry_state |-> context.retry_state,
          refresh |-> <<refreshed>>]
    ELSE [ret |-> RetTrue,
          retry_state |-> DictSet(context.retry_state, "has_done_reauth", TRUE),
          refresh |-> <<refreshed>>]

\* variant of ExpiredAuthorizationRetryChecker.should_retry that returns
\* False once a reauth has been done
ExpiredAuthorizationShouldRetry_FalseWhenDone(context, refreshed) ==
    IF context.response = None
       \/ context.response[1].status_code \notin ExpiredAuthorizationStatusCodes
       \/ context.authorizer = None
    THEN [ret |-> RetNone, retry_state |-> context.retry_state,
          refresh |-> <<>>]
    ELSE IF Truthy(DictGet(context.retry_state, "has_done_reauth"))
    THEN [ret |-> RetFalse, retry_state |-> context.retry_state,
          refresh |-> <<>>]
    ELSE IF refreshed = "raise"
    THEN [ret |-> RetRaise, retry_state |-> context.retry_state,
          refresh |-> <<refreshed>>]
    ELSE IF refreshed = "False"
    THEN [ret |-> RetNone, retry_state |-> context.retry_state,
          refresh |-> <<refreshed>>]
    ELSE [ret |-> RetTrue,
          retry_state |-> DictSet(context.retry_state, "has_done_reauth", TRUE),
          refresh |-> <<refreshed>>]

\* variant of ExpiredAuthorizationRetryChecker.should_retry that sets the
\* flag before it calls handle_missing_authorization()
ExpiredAuthorizationShouldRetry_FlagFirst(context, refreshed) ==
    LET flagged == DictSet(context.retry_state, "has_done_reauth", TRUE)
    IN  IF ~ExpiredAuthorizationCallsRefresh(context)
        THEN [ret |-> RetNone, retry_state |-> context.retry_state,
              refresh |-> <<>>]
        ELSE IF refreshed = "raise"
        THEN [ret |-> RetRaise, retry_state |-> flagged,
              refresh |-> <<refreshed>>]
        ELSE IF refreshed = "False"
        THEN [ret |-> RetNone, retry_state |-> flagged,
              refresh |-> <<refreshed>>]
        ELSE [ret |-> RetTrue, retry_state |-> flagged,
              refresh |-> <<refreshed>>]

\* variant of ExpiredAuthorizationRetryChecker.should_retry that also
\* counts the reauths in retry_state
ExpiredAuthorizationShouldRetry_ExtraKey(context, refreshed) ==
    IF ~ExpiredAuthorizationCallsRefresh(context)
    THEN [ret |-> RetNone, retry_state |-> context.retry_state,
          refresh |-> <<>>]
    ELSE IF refreshed = "raise"
    THEN [ret |-> RetRaise, retry_state |-> context.retry_state,
          refresh |-> <<refreshed>>]
    ELSE IF refreshed = "False"
    THEN [ret |-> RetNone, retry_state |-> context.retry_state,
          refresh |-> <<refreshed>>]
    ELSE [ret |-> RetTrue,
          retry_state |->
              DictSet(DictSet(context.retry_state, "has_done_reauth", TRUE),
                      "reauth_count", TRUE),
          refresh |-> <<refreshed>>]

\* variant of ExpiredAuthorizationRetryChecker.should_retry that catches
\* what handle_missing_authorization() raises and returns None
ExpiredAuthorizationShouldRetry_CatchesRaise(context, refreshed) ==
    IF ~ExpiredAuthorizationCallsRefresh(context)
    THEN [ret |-> RetNone, retry_state |-> context.retry_state,
          refresh |-> <<>>]
    ELSE IF refreshed = "raise" \/ refreshed = "False"
    THEN [ret |-> RetNone, retry_state |-> context.retry_state,
          refresh |-> <<refreshed>>]
    ELSE [ret |-> RetTrue,
          retry_state |-> DictSet(context.retry_state, "has_done_reauth", TRUE),
          refresh |-> <<refreshed>>]

\* ExpiredAuthorizationRetryChecker.should_retry; refreshed is the outcome of
\* handle_missing_authorization() when the call is reached.  The result holds
\* the return value, the retry_state left behind and the refresh calls made.
ExpiredAuthorizationShouldRetry(context, refreshed) ==
    IF ~ExpiredAuthorizationCallsRefresh(context)
    THEN [ret |-> RetNone, retry_state |-> context.retry_state,
          refresh |-> <<>>]
    ELSE IF refreshed = "raise"
    THEN [ret |-> RetRaise, retry_state |-> context.retry_state,
          refresh |-> <<refreshed>>]
    ELSE IF refreshed = "False"
    THEN [ret |-> RetNone, retry_state |-> context.retry_state,
          refresh |-> <<refreshed>>]
    ELSE [ret |-> RetTrue,
          retry_state |-> DictSet(context.retry_state, "has_done_reauth", TRUE),
          refresh |-> <<refreshed>>]

\* the refresh outcomes an evaluation of the context may meet
RefreshOutcomes(context) ==
    IF context.authorizer = None THEN {"False"}
    ELSE HandleMissingAuthorization(context.authorizer[1])

---------------------------------------------------------------------------
(* The policy: an ordered chain of checkers *)

DefaultCheckers ==
    <<"MaxRetries", "ExpiredAuthorization", "RetryAfter", "TransientError",
      "StandardException">>

CheckerNames == {DefaultCheckers[i] : i \in 1..Len(DefaultCheckers)}

\* one checker applied to a context, with the effects it leaves behind
ApplyChecker(name, limit, context, refreshed) ==
    LET pure(ret) == [ret |-> ret, retry_state |-> context.retry_state,
                      refresh |-> <<>>]
    IN  CASE name = "MaxRetries" -> pure(MaxRetriesShouldRetry(limit, context))
          [] name = "StandardException" ->
                pure(StandardExceptionShouldRetry(context))
          [] name = "RetryAfter" -> pure(RetryAfterShouldRetry(context))
          [] name = "TransientError" -> pure(TransientErrorShouldRetry(context))
          [] name = "ExpiredAuthorization" ->
                ExpiredAuthorizationShouldRetry(context, refreshed)

\* variant of the scan in which a later checker's True overrides an earlier
\* checker's False
RECURSIVE PolicyScan_LastWins(_, _, _, _, _, _)
PolicyScan_LastWins(cs, i, limit, context, refreshed, refresh) ==
    IF i > Len(cs)
    THEN [ret |-> RetFalse, retry_state |-> context.retry_state,
          refresh |-> refresh, consulted |-> cs]
    ELSE LET r == ApplyChecker(cs[i], limit, context, refreshed)
             rest == PolicyScan_LastWins(cs, i + 1, limit,
                        [context EXCEPT !.retry_state = r.retry_state],
                        refreshed, refresh \o r.refresh)
         IN  IF r.ret = RetNone \/ (r.ret = RetFalse /\ rest.ret = RetTrue)
             THEN rest
             ELSE [ret |-> r.ret, retry_state |-> r.retry_state,
                   refresh |-> refresh \o r.refresh,
                   consulted |-> SubSeq(cs, 1, i)]

\* the scan from checker i on: the first return value that is not None
\* decides and ends the scan; with none, the default is "do not retry"
RECURSIVE PolicyScan(_, _, _, _, _, _)
PolicyScan(cs, i, limit, context, refreshed, refresh) ==
    IF i > Len(cs)
    THEN [ret |-> RetFalse, retry_state |-> context.retry_state,
          refresh |-> refresh, consulted |-> cs]
    ELSE LET r == ApplyChecker(cs[i], limit, context, refreshed)
         IN  IF r.ret = RetNone
             THEN PolicyScan(cs, i + 1, limit,
                             [context EXCEPT !.retry_state = r.retry_state],
                             refreshed, refresh \o r.refresh)
             ELSE [ret |-> r.ret, retry_state |-> r.retry_state,
                   refresh |-> refresh \o r.refresh,
                   consulted |-> SubSeq(cs, 1, i)]

\* RetryPolicy.evaluate(context)
PolicyEvaluate(cs, limit, context, refreshed) ==
    PolicyScan(cs, 1, limit, context, refreshed, <<>>)

---------------------------------------------------------------------------
(* Verdicts, as the RetryChecker docstring reads the return values *)

IsRetry(v) == v = RetTrue

IsDoNotRetry(v) == v = RetFalse

IsIndeterminate(v) == v = RetNone

IsRetryAfter(v) == v.kind = "int"

---------------------------------------------------------------------------
(* Evaluating one context: one checker, or the whole policy *)

CurrentContext == Context(attempt, exception, response, authorizer, retry_state)

\* an attempt sets exactly one of exception and response; a context built by
\* hand may leave both unset
InitContextWith(orders) ==
    /\ max_retries \in 0..MaxRetriesBound
    /\ checkers \in orders
    /\ attempt \in 1..(max_retries + 2)
    /\ exception \in Exceptions
    /\ response \in Responses
    /\ exception = None \/ response = None
    /\ authorizer \in Authorizers
    /\ retry_state \in RetryStates
    /\ phase = "Context"
    /\ checker = "none"
    /\ verdict = NoVerdict
    /\ consulted = <<>>
    /\ pre_state = retry_state
    /\ refresh_log = <<>>
    /\ log = <<>>

InitContext == InitContextWith({DefaultCheckers})

Evaluated(name, r) ==
    /\ phase' = "Evaluated"
    /\ checker' = name
    /\ verdict' = r.ret
    /\ retry_state' = r.retry_state
    /\ pre_state' = retry_state
    /\ refresh_log' = refresh_log \o r.refresh
    /\ UNCHANGED <<max_retries, checkers, attempt, exception, response,
                   authorizer, log>>

CheckMaxRetries ==
    /\ phase = "Context"
    /\ Evaluated("MaxRetries",
                 ApplyChecker("MaxRetries", max_retries, CurrentContext, "False"))
    /\ consulted' = <<"MaxRetries">>

CheckStandardException ==
    /\ phase = "Context"
    /\ Evaluated("StandardException",
                 ApplyChecker("StandardException", max_retries, CurrentContext,
                              "False"))
    /\ consulted' = <<"StandardException">>

CheckRetryAfter ==
    /\ phase = "Context"
    /\ Evaluated("RetryAfter",
                 ApplyChecker("RetryAfter", max_retries, CurrentContext, "False"))
    /\ consulted' = <<"RetryAfter">>

CheckTransientError ==
    /\ phase = "Context"
    /\ Evaluated("TransientError",
                 ApplyChecker("TransientError", max_retries, CurrentContext,
                              "False"))
    /\ consulted' = <<"TransientError">>

CheckExpiredAuthorization ==
    /\ phase = "Context"
    /\ \E refreshed \in RefreshOutcomes(CurrentContext) :
          Evaluated("ExpiredAuthorization",
                    ApplyChecker("ExpiredAuthorization", max_retries,
                                 CurrentContext, refreshed))
    /\ consulted' = <<"ExpiredAuthorization">>

EvaluatePolicy ==
    /\ phase = "Context"
    /\ \E refreshed \in RefreshOutcomes(CurrentContext) :
       \E r \in {PolicyEvaluate(checkers, max_retries, CurrentContext, refreshed)} :
              /\ Evaluated("Policy", r)
              /\ consulted' = r.consulted

NextCheckers ==
    \/ CheckMaxRetries
    \/ CheckStandardException
    \/ CheckRetryAfter
    \/ CheckTransientError
    \/ CheckExpiredAuthorization
    \/ EvaluatePolicy

SpecCheckers == InitContext /\ [][NextCheckers]_vars

\* checker lists a policy may be configured with
CheckerOrders ==
    { DefaultCheckers,
      <<"TransientError", "RetryAfter", "StandardException",
        "ExpiredAuthorization", "MaxRetries">>,
      <<"ExpiredAuthorization", "StandardException">>,
      <<>> }

InitPolicy == InitContextWith(CheckerOrders)

NextPolicy == EvaluatePolicy

SpecPolicy == InitPolicy /\ [][NextPolicy]_vars

---------------------------------------------------------------------------
(* The executor: one logical request, attempt by attempt *)

\* what an attempt may come back with
ExecHeaderValues == {None, Some(<<"2">>)}

ExecStatusCodes == {200, 401, 404, 429, 500}

ExecResponses ==
    {Some([status_code |-> sc, retry_after |-> h]) :
        sc \in ExecStatusCodes, h \in ExecHeaderValues}

ExecExceptions == {Some("Timeout"), Some("UnicodeEncodeError")}

SuccessStatusCodes == {200}

Terminal == phase \in {"Succeeded", "Failed"}

Init ==
    /\ max_retries \in 0..MaxRetriesBound
    /\ checkers = DefaultCheckers
    /\ attempt = 1
    /\ exception = None
    /\ response = None
    /\ authorizer \in Authorizers
    /\ retry_state = EmptyDict
    /\ phase = "Pending"
    /\ checker = "none"
    /\ verdict = NoVerdict
    /\ consulted = <<>>
    /\ pre_state = EmptyDict
    /\ refresh_log = <<>>
    /\ log = <<>>

\* the request is sent: it raises, or a response comes back
Send ==
    /\ phase = "Pending"
    /\ \/ /\ exception' \in ExecExceptions
          /\ response' = None
       \/ /\ response' \in ExecResponses
          /\ exception' = None
    /\ phase' = "Attempted"
    /\ UNCHANGED <<max_retries, checkers, attempt, authorizer, retry_state,
                   checker, verdict, consulted, pre_state, refresh_log, log>>

\* the policy is asked once about the completed attempt, and the executor
\* acts on its verdict
Evaluate ==
    /\ phase = "Attempted"
    /\ \E refreshed \in RefreshOutcomes(CurrentContext) :
       \E r \in {PolicyEvaluate(checkers, max_retries, CurrentContext, refreshed)} :
              /\ checker' = "Policy"
              /\ verdict' = r.ret
              /\ consulted' = r.consulted
              /\ retry_state' = r.retry_state
              /\ pre_state' = retry_state
              /\ refresh_log' = refresh_log \o r.refresh
              /\ log' = Append(log, [exception |-> exception,
                                     response |-> response,
                                     verdict |-> r.ret])
              /\ phase' =
                    IF IsRetry(r.ret) \/ IsRetryAfter(r.ret) THEN "Retrying"
                    ELSE IF /\ IsDoNotRetry(r.ret)
                            /\ response # None
                            /\ response[1].status_code \in SuccessStatusCodes
                         THEN "Succeeded"
                         ELSE "Failed"
    /\ UNCHANGED <<max_retries, checkers, attempt, exception, response,
                   authorizer>>

\* after the delay the next attempt starts with a fresh context; only
\* retry_state is carried over
NextAttempt ==
    /\ phase = "Retrying"
    /\ attempt < MaxRetriesBound + 3
    /\ attempt' = attempt + 1
    /\ exception' = None
    /\ response' = None
    /\ phase' = "Pending"
    /\ UNCHANGED <<max_retries, checkers, authorizer, retry_state, checker,
                   verdict, consulted, pre_state, refresh_log, log>>

Next ==
    \/ Send
    \/ Evaluate
    \/ NextAttempt

Spec == Init /\ [][Next]_vars

FairSpec == Spec /\ WF_vars(Next)

---------------------------------------------------------------------------
(* Properties of one logical request *)

Is401(resp) ==
    resp # None /\ resp[1].status_code \in ExpiredAuthorizationStatusCodes

IsRetryVerdict(v) == IsRetry(v) \/ IsRetryAfter(v)

HasDoneReauth(st) == Truthy(DictGet(st, "has_done_reauth"))

\* the attempt of the current context has been evaluated by the policy
JustEvaluated == phase \in {"Retrying", "Succeeded", "Failed"}

\* C1: in a logical request driven by the executor under the default checker
\* order, handle_missing_authorization is called at most once, whatever the
\* attempts come back with and whatever the refresh calls report.
C1_RefreshAtMostOnce == Len(refresh_log) <= 1

\* a request whose first 401 was answered by a successful refresh and a
\* retry, and which then met a second 401
C1_Witness ==
    /\ JustEvaluated
    /\ attempt <= max_retries
    /\ consulted = DefaultCheckers
    /\ refresh_log = <<"True">>
    /\ Is401(response)
    /\ \E i \in 1..(Len(log) - 1) : Is401(log[i].response)

\* C2: a logical request gets a retry verdict for a 401 at most once.  The
\* 401 whose refresh succeeds with no reauth flag set yields Retry and sets
\* the flag; a 401 evaluated with the flag set yields Indeterminate from the
\* ExpiredAuthorization checker and DoNotRetry from the policy.
C2_RetryOn401AtMostOnce ==
    /\ Cardinality({i \in 1..Len(log) :
            Is401(log[i].response) /\ IsRetryVerdict(log[i].verdict)}) <= 1
    /\ (/\ JustEvaluated
        /\ Is401(response)
        /\ ~HasDoneReauth(pre_state)
        /\ Len(refresh_log) > 0
        /\ refresh_log[Len(refresh_log)] = "True")
       => (IsRetry(verdict) /\ HasDoneReauth(retry_state))
    /\ (JustEvaluated /\ Is401(response) /\ HasDoneReauth(pre_state))
       => /\ IsDoNotRetry(verdict)
          /\ retry_state = pre_state
          /\ \A refreshed \in RefreshOutcomes(CurrentContext) :
                IsIndeterminate(
                    ApplyChecker("ExpiredAuthorization", max_retries,
                                 Context(attempt, exception, response,
                                         authorizer, pre_state),
                                 refreshed).ret)

\* a request that was retried after its first 401 and refused after its second
C2_Witness ==
    /\ phase = "Failed"
    /\ Len(log) >= 2
    /\ Is401(log[Len(log)].response)
    /\ IsDoNotRetry(log[Len(log)].verdict)
    /\ attempt <= max_retries
    /\ \E i \in 1..(Len(log) - 1) :
          Is401(log[i].response) /\ IsRetry(log[i].verdict)

---------------------------------------------------------------------------
(* Properties of the single checkers *)

StatusIn(resp, codes) == resp # None /\ resp[1].status_code \in codes

\* the Retry-After header of a response that has one
HeaderOf(resp) == resp[1].retry_after

\* C3: MaxRetriesRetryChecker returns DoNotRetry for every context with
\* attempt > max_retries and Indeterminate for every context with
\* attempt <= max_retries, whatever else the context holds.
C3_MaxRetriesVerdict ==
    checker = "MaxRetries" =>
        /\ attempt > max_retries => IsDoNotRetry(verdict)
        /\ attempt <= max_retries => IsIndeterminate(verdict)
        /\ retry_state = pre_state

\* the boundary attempt == max_retries, on a context that carries a failure
C3_Witness ==
    /\ checker = "MaxRetries"
    /\ attempt = max_retries
    /\ exception # None
    /\ IsIndeterminate(verdict)

\* C4: under the default checker order the policy's verdict is DoNotRetry
\* for every context with attempt > max_retries, also where a later checker
\* alone would ask for a retry; no later checker is consulted.
C4_AttemptCapVetoes ==
    (checker = "Policy" /\ checkers = DefaultCheckers /\ attempt > max_retries)
        => /\ IsDoNotRetry(verdict)
           /\ consulted = <<"MaxRetries">>
           /\ refresh_log = <<>>
           /\ retry_state = pre_state

\* past the cap, a context for which some later checker alone says Retry or
\* RetryAfter
C4_LaterCheckerWouldRetry(name) ==
    \E refreshed \in RefreshOutcomes(CurrentContext) :
        IsRetryVerdict(ApplyChecker(name, max_retries, CurrentContext,
                                    refreshed).ret)

C4_Witness ==
    /\ checker = "Policy"
    /\ attempt > max_retries
    /\ IsDoNotRetry(verdict)
    /\ Is401(response)
    /\ C4_LaterCheckerWouldRetry("ExpiredAuthorization")

\* a header value that is a decimal number N >= 0
NumericHeader(h) == h # None /\ AllDigits(h[1])

\* C5: for every 429 response with a numeric Retry-After header N >= 0
\* (N = 0 included), RetryAfterRetryChecker returns RetryAfter(N), never a
\* plain Retry.
C5_RetryAfterExact ==
    (/\ checker = "RetryAfter"
     /\ StatusIn(response, {429})
     /\ NumericHeader(HeaderOf(response)))
        => verdict = RetInt(DigitsValue(HeaderOf(response)[1]))

\* a header value that is absent, empty or not parsable as an integer
NoIntegerHeader(h) == h = None \/ h[1] = <<>> \/ IntOfStr(h[1]) = None

\* C6: for a 429 or 503 response whose Retry-After header is absent, empty
\* or not an integer, RetryAfterRetryChecker returns plain Retry; with no
\* response, or a status outside {429, 503}, it returns Indeterminate
\* whatever the headers are.
C6_RetryAfterFallback ==
    checker = "RetryAfter" =>
        /\ (StatusIn(response, {429, 503}) /\ NoIntegerHeader(HeaderOf(response)))
              => IsRetry(verdict)
        /\ ~StatusIn(response, {429, 503}) => IsIndeterminate(verdict)
        /\ retry_state = pre_state

\* a 503 whose Retry-After is present and malformed
C6_Witness ==
    /\ checker = "RetryAfter"
    /\ StatusIn(response, {503})
    /\ HeaderOf(response) = Some(<<"s">>)
    /\ IsRetry(verdict)

\* the exception classes that are network or transport failures
TransportFailureClasses == {"ConnectionError", "Timeout"}

\* C7: StandardExceptionRetryChecker returns Retry when the exception is a
\* network or transport failure (connection error, timeout), DoNotRetry for
\* an exception of any other kind (encoding, validation, malformed request)
\* and Indeterminate when there is no exception.
C7_TransportExceptionVerdict ==
    checker = "StandardException" =>
        IF exception = None THEN IsIndeterminate(verdict)
        ELSE IF exception[1] \in TransportFailureClasses THEN IsRetry(verdict)
        ELSE IsDoNotRetry(verdict)

---------------------------------------------------------------------------
(* Properties of the policy and of whole requests *)

\* what checker i of the list returns on the context the evaluation was
\* given, the refresh going the way the evaluation saw it
CheckerReturn(i) ==
    ApplyChecker(checkers[i], max_retries,
                 Context(attempt, exception, response, authorizer, pre_state),
                 IF refresh_log = <<>> THEN "False" ELSE refresh_log[1]).ret

\* the checkers of the list that have an opinion on the context
Decisive == {i \in 1..Len(checkers) : ~IsIndeterminate(CheckerReturn(i))}

\* C8: the policy returns the verdict of the first checker, in configured
\* order, whose verdict is not Indeterminate, and consults no checker after
\* it: an ExpiredAuthorization checker that comes later makes no refresh call
\* and sets no flag.  When every checker is Indeterminate the policy returns
\* DoNotRetry.
C8_FirstDecisiveWins ==
    checker = "Policy" =>
        IF Decisive = {}
        THEN IsDoNotRetry(verdict) /\ consulted = checkers
        ELSE LET first == CHOOSE i \in Decisive : \A j \in Decisive : i <= j
             IN  /\ verdict = CheckerReturn(first)
                 /\ consulted = SubSeq(checkers, 1, first)
                 /\ (\A k \in 1..first : checkers[k] # "ExpiredAuthorization")
                       => (refresh_log = <<>> /\ retry_state = pre_state)

\* a 401 that a refresh would have answered, decided by an earlier checker
\* of a non-default order
C8_Witness ==
    /\ checker = "Policy"
    /\ checkers # DefaultCheckers
    /\ exception # None
    /\ authorizer = Some("RefreshTokenAuthorizer")
    /\ Len(consulted) = 3
    /\ consulted[3] = "StandardException"
    /\ IsRetry(verdict)

Resp(sc, h) == Some([status_code |-> sc, retry_after |-> h])

\* the attempts so far came back with 500, then 429 with Retry-After: 2,
\* then 200, as far as they go
C9_Scenario(n) ==
    /\ Len(log) >= n
    /\ n >= 1 => log[1].response = Resp(500, None)
    /\ n >= 2 => log[2].response = Resp(429, Some(<<"2">>))
    /\ n >= 3 => log[3].response = Resp(200, None)

\* C9: with MaxRetries(3) at the head of the default order and attempts
\* answered 500, 429 with Retry-After: 2, 200, the verdicts are Retry after
\* attempt 1 and RetryAfter(2) after attempt 2, and the request succeeds at
\* attempt 3 without the MaxRetries checker ever returning DoNotRetry.
C9_EndToEnd ==
    max_retries = 3 =>
        /\ C9_Scenario(1) => IsRetry(log[1].verdict)
        /\ C9_Scenario(2) => log[2].verdict = RetInt(2)
        /\ C9_Scenario(3) =>
              /\ Len(log) = 3
              /\ attempt = 3
              /\ phase = "Succeeded"
              /\ consulted = DefaultCheckers
              /\ \A a \in 1..3 :
                    IsIndeterminate(
                        MaxRetriesShouldRetry(max_retries,
                            Context(a, None, log[a].response, authorizer,
                                    retry_state)))

C9_Witness ==
    /\ max_retries = 3
    /\ C9_Scenario(3)
    /\ phase = "Succeeded"

\* C10: with max_retries = M a logical request makes at most M + 1 attempts,
\* however retryable the outcomes are, and ends in Succeeded or Failed.
C10_BoundedAndTerminates ==
    /\ [](attempt <= max_retries + 1 /\ Len(log) <= max_retries + 1)
    /\ <>Terminal

\* a request that was told to retry after every attempt up to the cap
C10_Witness ==
    /\ Terminal
    /\ max_retries >= 2
    /\ attempt = max_retries + 1
    /\ Len(log) = max_retries + 1
    /\ \A i \in 1..max_retries : IsRetryVerdict(log[i].verdict)

---------------------------------------------------------------------------
(* The same context evaluated twice by one checker *)

\* the checker that evaluated the context is asked again; retry_state is
\* what the first evaluation left, everything else is the same.  log keeps
\* the first evaluation: its verdict, the retry_state it was given and the
\* refresh calls it made.
Reevaluate ==
    /\ phase = "Evaluated"
    /\ checker \in CheckerNames
    /\ \E refreshed \in RefreshOutcomes(CurrentContext) :
       \E r \in {ApplyChecker(checker, max_retries, CurrentContext, refreshed)} :
              /\ verdict' = r.ret
              /\ retry_state' = r.retry_state
              /\ pre_state' = retry_state
              /\ refresh_log' = refresh_log \o r.refresh
              /\ log' = Append(log, [exception |-> exception,
                                     response |-> response,
                                     verdict |-> verdict,
                                     pre_state |-> pre_state,
                                     refresh |-> refresh_log])
    /\ phase' = "Reevaluated"
    /\ UNCHANGED <<max_retries, checkers, attempt, exception, response,
                   authorizer, checker, consulted>>

NextTwice ==
    \/ NextCheckers
    \/ Reevaluate

SpecTwice == InitContext /\ [][NextTwice]_vars

PureCheckers == CheckerNames \ {"ExpiredAuthorization"}

\* the refresh calls of the second evaluation
SecondRefresh ==
    SubSeq(refresh_log, Len(log[1].refresh) + 1, Len(refresh_log))

\* the first evaluation set the reauth flag
FirstSetFlag ==
    ~HasDoneReauth(log[1].pre_state) /\ HasDoneReauth(pre_state)

\* C11 as stated: the four other checkers give the same verdict twice and
\* leave retry_state unchanged; the two verdicts of the ExpiredAuthorization
\* checker differ only when the first evaluation set the reauth flag (first
\* Retry, second Indeterminate) and are equal in every other case in which
\* both evaluations return.
C11_Original ==
    phase = "Reevaluated" =>
        /\ checker \in PureCheckers =>
              /\ verdict = log[1].verdict
              /\ retry_state = log[1].pre_state
        /\ checker = "ExpiredAuthorization" =>
              /\ FirstSetFlag =>
                    IsRetry(log[1].verdict) /\ IsIndeterminate(verdict)
              /\ (~FirstSetFlag /\ log[1].verdict # RetRaise /\ verdict # RetRaise)
                    => verdict = log[1].verdict

\* C11 (amended): as above, except that the two verdicts of the
\* ExpiredAuthorization checker may also differ when the refresh call of the
\* second evaluation ends otherwise than that of the first (fails, succeeds
\* or raises); with no flag set by the first evaluation and the same refresh
\* outcome, the verdicts are equal.
C11_Idempotence ==
    phase = "Reevaluated" =>
        /\ checker \in PureCheckers =>
              /\ verdict = log[1].verdict
              /\ retry_state = log[1].pre_state
        /\ checker = "ExpiredAuthorization" =>
              /\ FirstSetFlag =>
                    IsRetry(log[1].verdict) /\ IsIndeterminate(verdict)
              /\ (~FirstSetFlag /\ SecondRefresh = log[1].refresh)
                    => verdict = log[1].verdict

\* the ExpiredAuthorization checker asked twice about a 401: Retry, then
\* Indeterminate
C11_Witness ==
    /\ phase = "Reevaluated"
    /\ checker = "ExpiredAuthorization"
    /\ FirstSetFlag
    /\ IsRetry(log[1].verdict)
    /\ IsIndeterminate(verdict)

---------------------------------------------------------------------------
(* Two logical requests of one client, interleaved *)

\* The requests share the policy and the authorizer; each has its own
\* RetryContext and its own retry_state.  In this specification attempt,
\* exception, response, retry_state, phase, checker, verdict, consulted,
\* pre_state and refresh_log hold one value per request; log is not kept.

Requests == {1, 2}

TwoResponses ==
    {Some([status_code |-> sc, retry_after |-> None]) : sc \in {200, 401, 500}}

ContextOf(i) ==
    Context(attempt[i], exception[i], response[i], authorizer, retry_state[i])

InitTwo ==
    /\ max_retries \in 0..MaxRetriesBound
    /\ checkers = DefaultCheckers
    /\ authorizer \in Authorizers
    /\ attempt = [i \in Requests |-> 1]
    /\ exception = [i \in Requests |-> None]
    /\ response = [i \in Requests |-> None]
    /\ retry_state = [i \in Requests |-> EmptyDict]
    /\ phase = [i \in Requests |-> "Pending"]
    /\ checker = [i \in Requests |-> "none"]
    /\ verdict = [i \in Requests |-> NoVerdict]
    /\ consulted = [i \in Requests |-> <<>>]
    /\ pre_state = [i \in Requests |-> EmptyDict]
    /\ refresh_log = [i \in Requests |-> <<>>]
    /\ log = <<>>

SendTwo(i) ==
    /\ phase[i] = "Pending"
    /\ \E resp \in TwoResponses : response' = [response EXCEPT ![i] = resp]
    /\ phase' = [phase EXCEPT ![i] = "Attempted"]
    /\ UNCHANGED <<max_retries, checkers, attempt, exception, authorizer,
                   retry_state, checker, verdict, consulted, pre_state,
                   refresh_log, log>>

EvaluateTwo(i) ==
    /\ phase[i] = "Attempted"
    /\ \E refreshed \in RefreshOutcomes(ContextOf(i)) :
       \E r \in {PolicyEvaluate(checkers, max_retries, ContextOf(i), refreshed)} :
              /\ checker' = [checker EXCEPT ![i] = "Policy"]
              /\ verdict' = [verdict EXCEPT ![i] = r.ret]
              /\ consulted' = [consulted EXCEPT ![i] = r.consulted]
              /\ retry_state' = [retry_state EXCEPT ![i] = r.retry_state]
              /\ pre_state' = [pre_state EXCEPT ![i] = retry_state[i]]
              /\ refresh_log' =
                    [refresh_log EXCEPT ![i] = refresh_log[i] \o r.refresh]
              /\ phase' = [phase EXCEPT ![i] =
                    IF IsRetry(r.ret) \/ IsRetryAfter(r.ret) THEN "Retrying"
                    ELSE IF /\ IsDoNotRetry(r.ret)
                            /\ response[i][1].status_code \in SuccessStatusCodes
                         THEN "Succeeded"
                         ELSE "Failed"]
    /\ UNCHANGED <<max_retries, checkers, attempt, exception, response,
                   authorizer, log>>

NextAttemptTwo(i) ==
    /\ phase[i] = "Retrying"
    /\ attempt[i] < MaxRetriesBound + 3
    /\ attempt' = [attempt EXCEPT ![i] = attempt[i] + 1]
    /\ response' = [response EXCEPT ![i] = None]
    /\ phase' = [phase EXCEPT ![i] = "Pending"]
    /\ UNCHANGED <<max_retries, checkers, exception, authorizer, retry_state,
                   checker, verdict, consulted, pre_state, refresh_log, log>>

NextTwo ==
    \E i \in Requests :
        \/ SendTwo(i)
        \/ EvaluateTwo(i)
        \/ NextAttemptTwo(i)

SpecTwo == InitTwo /\ [][NextTwo]_vars

\* request i has had the policy's verdict on its current attempt
JustEvaluatedTwo(i) == phase[i] \in {"Retrying", "Succeeded", "Failed"}

\* C12: with two interleaved requests, each with its own retry_state and
\* both with one authorizer, the reauth flag of one request never decides
\* for the other: a request's flag is set by its own successful refresh
\* only, and its first 401 within the attempt budget still gets its one
\* refresh call and, if that succeeds, its retry, whatever the other request
\* has done.
C12_RequestsDoNotInterfere ==
    \A i \in Requests :
        /\ HasDoneReauth(retry_state[i]) <=> refresh_log[i] = <<"True">>
        /\ Len(refresh_log[i]) <= 1
        /\ (/\ JustEvaluatedTwo(i)
            /\ Is401(response[i])
            /\ authorizer # None
            /\ ~HasDoneReauth(pre_state[i])
            /\ attempt[i] <= max_retries)
           => /\ Len(refresh_log[i]) = 1
              /\ refresh_log[i] = <<"True">> => IsRetry(verdict[i])

\* both requests are being retried after a 401, each after its own refresh
C12_Witness ==
    \A i \in Requests :
        /\ phase[i] = "Retrying"
        /\ Is401(response[i])
        /\ refresh_log[i] = <<"True">>
        /\ HasDoneReauth(retry_state[i])

---------------------------------------------------------------------------
(* Further properties of the checkers and of the default policy *)

\* a header value that int() reads as N
HeaderInt(h) == IntOfStr(h[1])[1]

\* a header value that is an integer N > 0
PositiveHeader(h) ==
    /\ NumericHeader(h)
    /\ HeaderInt(h) > 0

\* a header value that is an integer N < 0
NegativeHeader(h) ==
    /\ h # None
    /\ IntOfStr(h[1]) # None
    /\ HeaderInt(h) < 0

DefaultPolicyEvaluated == checker = "Policy" /\ checkers = DefaultCheckers

\* C13: under the default order, a 429 or 503 with a positive integer
\* Retry-After N and attempt <= max_retries gets RetryAfter(N); the plain
\* Retry of the TransientError checker does not decide.
C13_RetryAfterBeforeTransient ==
    (/\ DefaultPolicyEvaluated
     /\ attempt <= max_retries
     /\ StatusIn(response, {429, 503})
     /\ PositiveHeader(HeaderOf(response)))
        => /\ verdict = RetInt(HeaderInt(HeaderOf(response)))
           /\ consulted = <<"MaxRetries", "ExpiredAuthorization", "RetryAfter">>

C13_Witness ==
    /\ DefaultPolicyEvaluated
    /\ attempt <= max_retries
    /\ StatusIn(response, {503})
    /\ HeaderOf(response) = Some(<<"2">>)
    /\ verdict = RetInt(2)

\* C14: every RetryAfter verdict carries a delay >= 0; a 429 or 503 whose
\* Retry-After is a negative integer gets plain Retry from the RetryAfter
\* checker.
C14_NonNegativeDelay ==
    /\ IsRetryAfter(verdict) => verdict.value >= 0
    /\ (/\ checker = "RetryAfter"
        /\ StatusIn(response, {429, 503})
        /\ NegativeHeader(HeaderOf(response)))
       => IsRetry(verdict)

\* C15: the ExpiredAuthorization checker never returns DoNotRetry.  An
\* evaluation that returns gives Retry exactly when the status is 401, an
\* authorizer is present, the reauth flag is absent and the refresh call
\* succeeded, and Indeterminate in every other case.
C15_ExpiredAuthorizationVerdict ==
    (checker = "ExpiredAuthorization" /\ verdict # RetRaise) =>
        /\ ~IsDoNotRetry(verdict)
        /\ IsRetry(verdict) <=>
              /\ Is401(response)
              /\ authorizer # None
              /\ ~HasDoneReauth(pre_state)
              /\ refresh_log = <<"True">>
        /\ ~IsRetry(verdict) => IsIndeterminate(verdict)

\* a 401 with an authorizer, met with the flag set: Indeterminate
C15_Witness ==
    /\ checker = "ExpiredAuthorization"
    /\ Is401(response)
    /\ authorizer # None
    /\ HasDoneReauth(pre_state)
    /\ IsIndeterminate(verdict)

\* the retry_state the request had before any evaluation
InitialRetryState ==
    IF phase = "Context" THEN retry_state
    ELSE IF phase = "Evaluated" THEN pre_state
    ELSE log[1].pre_state

RefreshSucceeded == \E k \in DOMAIN refresh_log : refresh_log[k] = "True"

\* C16: for a request that starts without the flag, the flag is set iff
\* some refresh call of this request succeeded; once set it is never
\* cleared; a refresh that reports failure leaves the flag absent, and the
\* next evaluation of the same 401 calls the refresh again.
C16_FlagTracksRefresh ==
    /\ [](InitialRetryState = EmptyDict =>
             (HasDoneReauth(retry_state) <=> RefreshSucceeded))
    /\ [][HasDoneReauth(retry_state) => HasDoneReauth(retry_state')]_vars
    /\ []((/\ phase = "Reevaluated"
           /\ checker = "ExpiredAuthorization"
           /\ log[1].refresh = <<"False">>)
          => /\ ~HasDoneReauth(pre_state)
             /\ Len(refresh_log) = 2)

\* an authorizer that cannot refresh is asked on both evaluations
C16_Witness ==
    /\ phase = "Reevaluated"
    /\ checker = "ExpiredAuthorization"
    /\ InitialRetryState = EmptyDict
    /\ authorizer = Some("AccessTokenAuthorizer")
    /\ refresh_log = <<"False", "False">>
    /\ ~HasDoneReauth(retry_state)

\* C17: the default policy returns Retry or RetryAfter only if
\* attempt <= max_retries and the status is one of 429, 500, 502, 503, 504,
\* or the status is 401 and the first refresh just succeeded, or there is
\* no response and the exception is a transport failure; every other
\* evaluation that returns gives DoNotRetry.
C17_RetryOnlyWhen ==
    (DefaultPolicyEvaluated /\ verdict # RetRaise) =>
        IF /\ attempt <= max_retries
           /\ \/ StatusIn(response, TransientErrorStatusCodes)
              \/ /\ Is401(response)
                 /\ ~HasDoneReauth(pre_state)
                 /\ refresh_log = <<"True">>
              \/ /\ response = None
                 /\ exception # None
                 /\ exception[1] \in TransportFailureClasses
        THEN IsRetryVerdict(verdict)
        ELSE IsDoNotRetry(verdict)

C19_RefreshRaisePropagates ==
    (/\ checker \in {"ExpiredAuthorization", "Policy"}
     /\ refresh_log = <<"raise">>)
        => /\ verdict = RetRaise
           /\ retry_state = pre_state
           /\ ~HasDoneReauth(retry_state)

C19_Witness ==
    /\ DefaultPolicyEvaluated
    /\ refresh_log = <<"raise">>
    /\ verdict = RetRaise
    /\ consulted = <<"MaxRetries", "ExpiredAuthorization">>

====
